---------------------------- MODULE Spec2Model ----------------------------
(* A model of the ssec/hsrl example: the notebook                          *)
(* examples/read_display_uw_hsrl_scanning.ipynb, run top to bottom by a    *)
(* fresh kernel, and the shell script that renders it to HTML.             *)
EXTENDS Integers, Sequences, FiniteSets, TLC

VARIABLES
    pc,         \* code cell the kernel executes next (0: no run yet, NCells + 1: run finished)
    l1b_file,   \* content of the file at l1b_fileP: Absent, or the number of blocks it holds
    ns,         \* names bound in the kernel's namespace
    raised,     \* exception that ended the current run, or "none"
    printed,    \* tenths of a GB in the "Downloaded ... GB" message of this run, or NoPrint
    attempts,   \* calls of urllib.request.urlretrieve in this run
    ran,        \* code cells executed (to their end or to an exception) in this run
    plots,      \* plots displayed in this run
    runs,       \* top-to-bottom runs started so far
    argv0,      \* render script: $0 as the caller typed it (a string of tokens)
    cwd,        \* render script: the caller's working directory (a list of components)
    args,       \* render script: the command-line arguments
    script_dir, \* render script: the directory the script is installed in
    nbconvert,  \* render script: the words handed to jupyter nbconvert, or <<>> before it ran
    altitude,   \* scanning group: altitude coordinate, (angle, range) -> metres
    distance,   \* scanning group: distance coordinate, (angle, range) -> metres
    mean_over   \* samples the mean of mean_scanning_ds is taken over, or NotComputed

nbvars == <<pc, l1b_file, ns, raised, printed, attempts, ran, plots, runs>>
shvars == <<argv0, cwd, args, script_dir, nbconvert>>
scanvars == <<altitude, distance, mean_over>>
vars == <<pc, l1b_file, ns, raised, printed, attempts, ran, plots, runs,
          argv0, cwd, args, script_dir, nbconvert, altitude, distance, mean_over>>

-----------------------------------------------------------------------------
(* Bounds *)

\* Size of the remote file in blocks of 2^28 bytes (a quarter of a GiB).
RemoteBlocks == 3
\* Top-to-bottom runs of the notebook against the same home directory.
MaxRuns == 4
\* Scan angles and range gates of the scanning group.
NAngles == 2
NRanges == 2

-----------------------------------------------------------------------------
(* The notebook *)

Absent == -1
NoPrint == -1
NCells == 9

Variables4 == <<"particulate_backscatter_532nm",
                "particulate_linear_depolarization_532nm",
                "particulate_optical_depth_532nm",
                "attenuated_color_ratio_1064nm_532nm">>

Groups == {"vertical_stare", "horizontal_stare", "scanning"}

\* A statement: the names it reads, the names it binds, the group it opens
\* from the file ("" for none) and the plots its value displays.
Stmt(reads, writes) == [reads |-> reads, writes |-> writes, opens |-> "", plots |-> {}]

OpenStmt(name, group) ==
    [reads |-> {"xr", "l1b_fileP"}, writes |-> {name}, opens |-> group, plots |-> {}]

\* Mutant: the layout loses its last panel.
Layout3(ds, group, kind, extra) ==
    [reads |-> {ds, "hvplot"} \cup extra, writes |-> {}, opens |-> "",
     plots |-> {[group |-> group, from |-> ds, var |-> Variables4[i], kind |-> kind] : i \in 1..3}]

\* A layout of the four geophysical variables of one dataset.
Layout4(ds, group, kind, extra) ==
    [reads |-> {ds, "hvplot"} \cup extra, writes |-> {}, opens |-> "",
     plots |-> {[group |-> group, from |-> ds, var |-> Variables4[i], kind |-> kind] : i \in 1..4}]

DownloadPrefix ==
    << Stmt({}, {"urllib"}),
       Stmt({}, {"Path"}),
       Stmt({}, {"remote_l1b_url_str"}),
       Stmt({"Path", "remote_l1b_url_str"}, {"l1b_fileP"}),
       Stmt({"l1b_fileP"}, {}) >>

UrlretrieveStmt == Stmt({"urllib", "remote_l1b_url_str", "l1b_fileP"}, {"_", "header_obj"})

PrintStmt == Stmt({"header_obj", "l1b_fileP"}, {})

VertOpenCell ==
    << Stmt({}, {"np"}),
       Stmt({}, {"xr"}),
       OpenStmt("vert_stare_ds", "vertical_stare"),
       Stmt({"vert_stare_ds"}, {}) >>

\* Mutant: the cell no longer sets enable_plot_rasterize_bl.
VertPlotCellNoFlag ==
    << Stmt({}, {"hvplot"}),
       Stmt({}, {"hv"}),
       Stmt({"hv"}, {}),
       Layout4("vert_stare_ds", "vertical_stare", "image", {"enable_plot_rasterize_bl"}) >>

VertPlotCell ==
    << Stmt({}, {"hvplot"}),
       Stmt({}, {"hv"}),
       Stmt({"hv"}, {}),
       Stmt({}, {"enable_plot_rasterize_bl"}),
       Layout4("vert_stare_ds", "vertical_stare", "image", {"enable_plot_rasterize_bl"}) >>

HorzOpenCell ==
    << OpenStmt("horz_stare_ds", "horizontal_stare"),
       Stmt({"horz_stare_ds"}, {}) >>

HorzPlotCell ==
    << Layout4("horz_stare_ds", "horizontal_stare", "image", {"enable_plot_rasterize_bl"}) >>

AltitudeCell ==
    << Stmt({"horz_stare_ds"}, {"altitude_da"}),
       Stmt({"altitude_da"}, {}),
       [reads |-> {"altitude_da", "hvplot"}, writes |-> {}, opens |-> "",
        plots |-> {[group |-> "horizontal_stare", from |-> "altitude_da",
                    var |-> "altitude", kind |-> "curve"]}] >>

ScanOpenCell ==
    << OpenStmt("scanning_ds", "scanning"),
       Stmt({"scanning_ds"}, {}) >>

ScanPlotCell ==
    << Layout4("scanning_ds", "scanning", "quadmesh", {"enable_plot_rasterize_bl"}) >>

MeanScanCell ==
    << Stmt({}, {"altitude_tpl"}),
       Stmt({}, {"distance_tpl"}),
       Stmt({"scanning_ds", "distance_tpl", "altitude_tpl"}, {"mean_scanning_ds"}),
       Layout4("mean_scanning_ds", "scanning", "scatter", {}) >>

\* The code cells after the download cell, in notebook order.
Cell(c) ==
    CASE c = 2 -> VertOpenCell
      [] c = 3 -> VertPlotCell
      [] c = 4 -> HorzOpenCell
      [] c = 5 -> HorzPlotCell
      [] c = 6 -> AltitudeCell
      [] c = 7 -> ScanOpenCell
      [] c = 8 -> ScanPlotCell
      [] c = 9 -> MeanScanCell

OpenCells == {c \in 2..NCells : \E i \in 1..Len(Cell(c)) : Cell(c)[i].opens # ""}

\* xr.open_dataset(l1b_fileP, group=...): the exception it raises on a file
\* with the given content, or "none".
OpenDatasetExc(f) ==
    IF f = Absent THEN "FileNotFoundError"
    ELSE IF f < RemoteBlocks THEN "OSError"
    ELSE "none"

\* Mutant: the file is opened for writing and truncated.
OpenDatasetFileTruncate(f) == 0

\* xr.open_dataset opens the file read-only: the content it leaves behind.
OpenDatasetFile(f) == f

\* Python runs the statements in order; the first that fails ends the cell.
RECURSIVE RunStatements(_, _, _, _)
RunStatements(stmts, names, f, shown) ==
    IF stmts = <<>> THEN [ns |-> names, exc |-> "none", file |-> f, plots |-> shown]
    ELSE LET s == Head(stmts) IN
         IF ~(s.reads \subseteq names)
         THEN [ns |-> names, exc |-> "NameError", file |-> f, plots |-> shown]
         ELSE IF s.opens # "" /\ OpenDatasetExc(f) # "none"
         THEN [ns |-> names, exc |-> OpenDatasetExc(f), file |-> f, plots |-> shown]
         ELSE RunStatements(Tail(stmts), names \cup s.writes,
                            IF s.opens # "" THEN OpenDatasetFile(f) ELSE f,
                            shown \cup s.plots)

\* What the transfer of one urlretrieve call can do: whether urlopen connects,
\* whether the response carries Content-Length, how many blocks arrive, and
\* whether reading then fails with a connection error (rather than end of data).
Transfers ==
    [connect : BOOLEAN, has_length : BOOLEAN, delivered : 0..RemoteBlocks, reset : BOOLEAN]

\* urllib.request.urlretrieve(remote_l1b_url_str, str(l1b_fileP)): urlopen, then
\* open(filename, "wb"), then copy block by block, then compare with Content-Length.
Urlretrieve(f, t) ==
    IF ~t.connect
    THEN [file |-> f, exc |-> "URLError", content_length |-> NoPrint]
    ELSE IF t.reset /\ t.delivered < RemoteBlocks
    THEN [file |-> t.delivered, exc |-> "ConnectionResetError", content_length |-> NoPrint]
    ELSE IF t.has_length /\ t.delivered < RemoteBlocks
    THEN [file |-> t.delivered, exc |-> "ContentTooShortError", content_length |-> NoPrint]
    ELSE [file |-> t.delivered, exc |-> "none",
          content_length |-> IF t.has_length THEN RemoteBlocks ELSE NoPrint]

UrlretrieveErrors == {"URLError", "ConnectionResetError", "ContentTooShortError"}

\* round(int(header_obj["Content-Length"]) / 1024**3, 1) in tenths, for a length
\* of n blocks of 2^28 bytes: n / 4 is exact in binary, and round() goes to even.
RoundGB(n) ==
    LET q == (n * 25) \div 10
        r == (n * 25) % 10
    IN  IF r < 5 THEN q
        ELSE IF r > 5 THEN q + 1
        ELSE IF q % 2 = 0 THEN q ELSE q + 1

\* Mutant: a failed transfer is tried a second time before the error is raised.
DownloadBranchRetry(names, f, t) ==
    LET got == Urlretrieve(f, t) IN
    IF got.exc # "none"
    THEN [ns |-> names, exc |-> got.exc, file |-> Urlretrieve(got.file, t).file,
          printed |-> NoPrint, attempts |-> 2]
    ELSE [ns |-> names \cup UrlretrieveStmt.writes,
          exc |-> IF got.content_length = NoPrint THEN "TypeError" ELSE "none",
          file |-> got.file,
          printed |-> IF got.content_length = NoPrint THEN NoPrint
                      ELSE RoundGB(got.content_length),
          attempts |-> 1]

\* The body of "if l1b_fileP.exists() is False:": one call of urlretrieve, then
\* the message; header_obj["Content-Length"] is None when the header is missing.
DownloadBranch(names, f, t) ==
    LET got == Urlretrieve(f, t)
        bound == names \cup UrlretrieveStmt.writes
    IN
    IF ~(UrlretrieveStmt.reads \subseteq names)
    THEN [ns |-> names, exc |-> "NameError", file |-> f, printed |-> NoPrint, attempts |-> 0]
    ELSE IF got.exc # "none"
    THEN [ns |-> names, exc |-> got.exc, file |-> got.file, printed |-> NoPrint, attempts |-> 1]
    ELSE IF ~(PrintStmt.reads \subseteq bound)
    THEN [ns |-> bound, exc |-> "NameError", file |-> got.file, printed |-> NoPrint, attempts |-> 1]
    ELSE IF got.content_length = NoPrint
    THEN [ns |-> bound, exc |-> "TypeError", file |-> got.file, printed |-> NoPrint, attempts |-> 1]
    ELSE [ns |-> bound, exc |-> "none", file |-> got.file,
          printed |-> RoundGB(got.content_length), attempts |-> 1]

\* Mutant: the presence check is inverted.
DownloadResultInverted(names, f, t) ==
    LET pre == RunStatements(DownloadPrefix, names, f, {}) IN
    IF f # Absent
    THEN DownloadBranch(pre.ns, f, t)
    ELSE [ns |-> pre.ns, exc |-> "none", file |-> f, printed |-> NoPrint, attempts |-> 0]

\* Mutant: the file is fetched whether or not it is there.
DownloadResultNoCheck(names, f, t) ==
    DownloadBranch(RunStatements(DownloadPrefix, names, f, {}).ns, f, t)

\* The download cell: the presence check decides whether the branch runs.
DownloadResult(names, f, t) ==
    LET pre == RunStatements(DownloadPrefix, names, f, {}) IN
    IF pre.exc # "none"
    THEN [ns |-> pre.ns, exc |-> pre.exc, file |-> f, printed |-> NoPrint, attempts |-> 0]
    ELSE IF f = Absent
    THEN DownloadBranch(pre.ns, f, t)
    ELSE [ns |-> pre.ns, exc |-> "none", file |-> f, printed |-> NoPrint, attempts |-> 0]

\* Run All: an exception in a cell stops the run, otherwise the next cell runs.
NextPc(c, exc) == IF exc = "none" THEN c + 1 ELSE c

NbInit ==
    /\ pc = 0
    /\ l1b_file = Absent
    /\ ns = {}
    /\ raised = "none"
    /\ printed = NoPrint
    /\ attempts = 0
    /\ ran = {}
    /\ plots = {}
    /\ runs = 0

\* A fresh kernel starts at the first code cell; the home directory is kept.
StartRun ==
    /\ runs < MaxRuns
    /\ pc = 0 \/ pc = NCells + 1 \/ raised # "none"
    /\ pc' = 1
    /\ ns' = {}
    /\ raised' = "none"
    /\ printed' = NoPrint
    /\ attempts' = 0
    /\ ran' = {}
    /\ plots' = {}
    /\ runs' = runs + 1
    /\ UNCHANGED l1b_file
    /\ UNCHANGED <<shvars, scanvars>>

DownloadCell ==
    /\ pc = 1
    /\ raised = "none"
    /\ \E t \in Transfers :
         LET r == DownloadResult(ns, l1b_file, t) IN
         /\ ns' = r.ns
         /\ l1b_file' = r.file
         /\ raised' = r.exc
         /\ printed' = r.printed
         /\ attempts' = attempts + r.attempts
         /\ pc' = NextPc(1, r.exc)
    /\ ran' = ran \cup {1}
    /\ UNCHANGED <<plots, runs>>
    /\ UNCHANGED <<shvars, scanvars>>

RunCell(c) ==
    /\ pc = c
    /\ raised = "none"
    /\ LET r == RunStatements(Cell(c), ns, l1b_file, plots) IN
         /\ ns' = r.ns
         /\ l1b_file' = r.file
         /\ raised' = r.exc
         /\ plots' = r.plots
         /\ pc' = NextPc(c, r.exc)
    /\ ran' = ran \cup {c}
    /\ UNCHANGED <<printed, attempts, runs>>
    /\ UNCHANGED <<shvars, scanvars>>

-----------------------------------------------------------------------------
(* The render script.  A string is a sequence of tokens: "/", " " and names. *)

Slash == "/"
Space == " "

RECURSIVE SplitAcc(_, _, _, _)
SplitAcc(s, sep, cur, out) ==
    IF s = <<>> THEN (IF cur = <<>> THEN out ELSE Append(out, cur))
    ELSE IF Head(s) = sep
    THEN SplitAcc(Tail(s), sep, <<>>, IF cur = <<>> THEN out ELSE Append(out, cur))
    ELSE SplitAcc(Tail(s), sep, Append(cur, Head(s)), out)

\* The non-empty fields of s between separators.
SplitOn(s, sep) == SplitAcc(s, sep, <<>>, <<>>)

RECURSIVE Concat(_)
Concat(ss) == IF ss = <<>> THEN <<>> ELSE Head(ss) \o Concat(Tail(ss))

\* The absolute path string of a directory given as its list of components.
PathString(dir) ==
    IF dir = <<>> THEN <<Slash>>
    ELSE Concat([i \in 1..Len(dir) |-> <<Slash>> \o dir[i]])

RECURSIVE StripSlashes(_)
StripSlashes(s) ==
    IF s # <<>> /\ s[Len(s)] = Slash THEN StripSlashes(SubSeq(s, 1, Len(s) - 1)) ELSE s

\* dirname "$0"
Dirname(s) ==
    LET at == {i \in 1..Len(s) : s[i] = Slash} IN
    IF at = {} THEN <<".">>
    ELSE LET last == CHOOSE i \in at : \A j \in at : j <= i
             d == StripSlashes(SubSeq(s, 1, last - 1))
         IN  IF d = <<>> THEN <<Slash>> ELSE d

Home == <<"home">>
Repo == <<"hsrl">>
MyDir == <<"my", Space, "projects">>
Examples == <<"examples">>
ScriptName == <<"to_html.sh">>
Notebook == <<"read_display_uw_hsrl_scanning.ipynb">>

\* The directories of the file system; the repository is checked out in two places.
Dirs ==
    { <<>>, <<Home>>, <<Home, Repo>>, <<Home, Repo, Examples>>,
      <<Home, MyDir>>, <<Home, MyDir, Repo>>, <<Home, MyDir, Repo, Examples>> }

ScriptDirs == { d \in Dirs : d # <<>> /\ d[Len(d)] = Examples }

RECURSIVE Walk(_, _)
Walk(from, comps) ==
    IF comps = <<>> THEN from
    ELSE LET c == Head(comps) IN
         IF c = <<".">> THEN Walk(from, Tail(comps))
         ELSE IF c = <<"..">>
         THEN Walk(IF from = <<>> THEN from ELSE SubSeq(from, 1, Len(from) - 1), Tail(comps))
         ELSE Walk(Append(from, c), Tail(comps))

\* cd -- "$(dirname "$0")" >/dev/null 2>&1 ; pwd -P
\* pwd runs whether or not cd succeeded.
CdPwd(from, d) ==
    LET target == Walk(IF d[1] = Slash THEN <<>> ELSE from, SplitOn(d, Slash)) IN
    PathString(IF target \in Dirs THEN target ELSE from)

SCRIPTPATH(from, zero) == CdPwd(from, Dirname(zero))

\* An unquoted expansion is split into words at the blanks.
Expand(s) == SplitOn(s, Space)

\* The command line of jupyter nbconvert, word by word.
NbconvertCommand(from, zero) ==
    << <<"--to">>, <<"html_ch">> >>
    \o Expand(SCRIPTPATH(from, zero) \o <<Slash>> \o Notebook)
    \o << <<"--no-input">> >>
    \o Expand(<<"--output-dir=">> \o SCRIPTPATH(from, zero))

RECURSIVE CommonPrefix(_, _)
CommonPrefix(a, b) ==
    IF a = <<>> \/ b = <<>> \/ Head(a) # Head(b) THEN 0
    ELSE 1 + CommonPrefix(Tail(a), Tail(b))

\* The ways a caller in directory from can name the script in directory dir.
Argv0Forms(from, dir) ==
    LET k == CommonPrefix(from, dir)
        ups == [i \in 1..(Len(from) - k) |-> <<"..", Slash>>]
        downs == [i \in 1..(Len(dir) - k) |-> dir[k + i] \o <<Slash>>]
        rel == Concat(ups) \o Concat(downs) \o ScriptName
    IN  { PathString(dir) \o <<Slash>> \o ScriptName,
          rel,
          <<".", Slash>> \o rel }

ArgLists == { <<>>, <<"--execute">>, <<"--output-dir=/tmp", "x.ipynb">> }

\* nbconvert's reading of its command line: the notebooks are the words that
\* are not options ("--to" takes the next word), the output directory is the
\* value of --output-dir=.
IsOption(w) == w[1] \in {"--to", "--no-input", "--output-dir="}

NotebooksRead(words) ==
    { words[j] : j \in {i \in 1..Len(words) :
                          ~IsOption(words[i]) /\ (i = 1 \/ words[i - 1] # <<"--to">>)} }

OutputDirs(words) == { Tail(words[i]) : i \in {j \in 1..Len(words) : words[j][1] = "--output-dir="} }

ShIdle ==
    /\ argv0 = <<>>
    /\ cwd = <<>>
    /\ args = <<>>
    /\ script_dir = <<>>
    /\ nbconvert = <<>>

ShInit ==
    /\ script_dir \in ScriptDirs
    /\ cwd \in Dirs
    /\ argv0 \in Argv0Forms(cwd, script_dir)
    /\ args \in ArgLists
    /\ nbconvert = <<>>

\* The script runs once; it never reads "$@".
Render ==
    /\ nbconvert = <<>>
    /\ argv0 # <<>>
    /\ nbconvert' = NbconvertCommand(cwd, argv0)
    /\ UNCHANGED <<argv0, cwd, args, script_dir>>
    /\ UNCHANGED <<nbvars, scanvars>>

-----------------------------------------------------------------------------
(* The scanning time series: the last cell's mean_scanning_ds. *)

Angles == 1..NAngles
Ranges == 1..NRanges
Grid == Angles \X Ranges

AltitudeValues == {80 - 20, 80, 80 + 20, 80 + 21}
DistanceValues == {3000 - 20, 3000, 3000 + 20, 3000 + 21}

\* The intervals as the title of the scatter layout states them.
TitleAltitude == <<60, 100>>
TitleDistance == <<2980, 3020>>

altitude_tpl == <<80 - 20, 80 + 20>>
distance_tpl == <<3000 - 20, 3000 + 20>>

\* No sample has angle 0: this value is no result of the mean.
NotComputed == {<<0, 0>>}

\* (tpl[0] < coordinate) & (coordinate <= tpl[1]), over the whole grid.
InInterval(coord, tpl) == { p \in Grid : tpl[1] < coord[p] /\ coord[p] <= tpl[2] }

\* Dataset.where(cond, drop=True): cond is aligned with the dataset, the labels
\* of each dimension at which cond is nowhere true are dropped, and the values
\* at which cond is false become NaN.  A dataset is its angle labels, its range
\* labels and the set of its samples that are not NaN.
Where(ds, cond) ==
    LET here == { p \in cond : p[1] \in ds.angle /\ p[2] \in ds.range }
        keepA == { a \in ds.angle : \E r \in ds.range : <<a, r>> \in here }
        keepR == { r \in ds.range : \E a \in ds.angle : <<a, r>> \in here }
    IN  [angle |-> keepA, range |-> keepR, valid |-> ds.valid \cap here]

scanning_ds == [angle |-> Angles, range |-> Ranges, valid |-> Grid]

\* .mean(dim=["angle", "range"]) averages the samples that are not NaN.
mean_scanning_ds(alt, dist) ==
    Where(Where(scanning_ds, InInterval(dist, distance_tpl)),
          InInterval(alt, altitude_tpl)).valid

ScanIdle ==
    /\ altitude = <<>>
    /\ distance = <<>>
    /\ mean_over = NotComputed

ScanInit ==
    /\ altitude \in [Grid -> AltitudeValues]
    /\ distance \in [Grid -> DistanceValues]
    /\ mean_over = NotComputed

MeanScanning ==
    /\ mean_over = NotComputed
    /\ mean_over' = mean_scanning_ds(altitude, distance)
    /\ UNCHANGED <<altitude, distance>>
    /\ UNCHANGED <<nbvars, shvars>>

-----------------------------------------------------------------------------
(* Specifications *)

Init == NbInit /\ ShIdle /\ ScanIdle

Next ==
    \/ StartRun
    \/ DownloadCell
    \/ \E c \in 2..NCells : RunCell(c)

Spec == Init /\ [][Next]_vars

InitRender == NbInit /\ ShInit /\ ScanIdle

NextRender == Render

SpecRender == InitRender /\ [][NextRender]_vars

InitScan == NbInit /\ ShIdle /\ ScanInit

NextScan == MeanScanning

SpecScan == InitScan /\ [][NextScan]_vars

-----------------------------------------------------------------------------
(* Properties *)

Finished == pc = NCells + 1

\* The name each group's dataset is bound to.
GroupDataset(g) ==
    CASE g = "vertical_stare" -> "vert_stare_ds"
      [] g = "horizontal_stare" -> "horz_stare_ds"
      [] g = "scanning" -> "scanning_ds"

PlotsOf(g) == { p \in plots : p.group = g }

\* C1: an open_dataset call happens only when a file exists at l1b_fileP and
\* the download cell of this run has finished without raising.
C1_FileExistsBeforeUse ==
    /\ \A c \in OpenCells :
         (pc = c /\ raised = "none") => (l1b_file # Absent /\ 1 \in ran)
    /\ raised # "FileNotFoundError"

C1_Witness ==
    /\ Finished
    /\ \A g \in Groups : GroupDataset(g) \in ns

\* C2: an execution of the download cell calls urlretrieve exactly when no
\* file exists at l1b_fileP, at most once, and with a file there it fetches
\* nothing and leaves the file as it is.
C2_CachedByPresence ==
    [][ (1 \notin ran /\ 1 \in ran') =>
          /\ attempts' <= 1
          /\ (attempts' = 1) <=> (l1b_file = Absent)
          /\ (l1b_file # Absent) => (l1b_file' = l1b_file) ]_vars

C2_Witness ==
    /\ runs >= 2
    /\ 1 \in ran
    /\ attempts = 0
    /\ l1b_file = RemoteBlocks

\* C3: once the download cell has let the run go on, the local file holds the
\* whole remote content, and a printed size is the size of the local file.
C3_WholeFileBeforeUse ==
    (1 \in ran /\ raised = "none" /\ pc > 1) =>
        /\ l1b_file = RemoteBlocks
        /\ (printed # NoPrint) => (printed = RoundGB(l1b_file))

\* C4: when urlretrieve raises, the run ends in the download cell: one attempt,
\* no message, no later cell, and only a new run follows.
C4_FailurePropagates ==
    /\ [](raised \in UrlretrieveErrors =>
            /\ pc = 1
            /\ ran = {1}
            /\ attempts = 1
            /\ printed = NoPrint
            /\ plots = {}
            /\ \A g \in Groups : GroupDataset(g) \notin ns)
    /\ [][ (raised \in UrlretrieveErrors) => (runs' = runs + 1 /\ ran' = {}) ]_vars

C4_Witness ==
    /\ raised = "ContentTooShortError"
    /\ ran = {1}
    /\ l1b_file # Absent

\* C5 as stated: a finished run has produced exactly four plots per group.
C5_ExactlyFourPerGroup ==
    Finished => \A g \in Groups : Cardinality(PlotsOf(g)) = 4

\* C5 as amended: a finished run has produced, from each group's dataset, one
\* plot of each of the four variables and no other; besides these there are
\* the altitude curve of the horizontal stare and the four scatter plots of the
\* scanning means, 4, 5 and 8 plots in all.
C5_FourFromEachDataset ==
    Finished =>
        /\ \A g \in Groups :
             /\ \A i \in 1..4 :
                  Cardinality({ p \in PlotsOf(g) :
                      p.from = GroupDataset(g) /\ p.var = Variables4[i] }) = 1
             /\ Cardinality({ p \in PlotsOf(g) : p.from = GroupDataset(g) }) = 4
        /\ Cardinality(PlotsOf("vertical_stare")) = 4
        /\ Cardinality(PlotsOf("horizontal_stare")) = 5
        /\ Cardinality(PlotsOf("scanning")) = 8

C5_Witness ==
    /\ Finished
    /\ Cardinality(plots) = 17

\* C6: the file at l1b_fileP changes only when the download cell creates it;
\* no later cell changes it.
C6_OnlyDownloadWrites ==
    [][ (l1b_file' # l1b_file) => (pc = 1 /\ l1b_file = Absent) ]_vars

C6_Witness ==
    /\ Finished
    /\ l1b_file = RemoteBlocks
    /\ attempts = 1

\* C7: the one notebook nbconvert reads is the notebook in the script's
\* directory, and the one output directory is that directory.
C7_FixedOutputDir ==
    (nbconvert # <<>>) =>
        /\ NotebooksRead(nbconvert) = { PathString(script_dir) \o <<Slash>> \o Notebook }
        /\ OutputDirs(nbconvert) = { PathString(script_dir) }

\* C8: cells run in order, one after the other; no cell reads a name that is
\* not bound, and every plot is built after its group's dataset was opened.
C8_NoUseBeforeDefinition ==
    /\ raised # "NameError"
    /\ ran = { c \in 1..NCells : c < pc \/ (c = pc /\ raised # "none") }
    /\ \A p \in plots : GroupDataset(p.group) \in ns /\ p.from \in ns
    /\ (pc > 1) => {"l1b_fileP", "urllib", "Path"} \subseteq ns

C8_Witness ==
    /\ Finished
    /\ raised = "none"
    /\ {"mean_scanning_ds", "altitude_da", "enable_plot_rasterize_bl"} \subseteq ns

\* C9: the mean is taken over exactly the samples whose altitude and distance
\* lie in the closed intervals of the plot title.
C9_ClosedIntervals ==
    (mean_over # NotComputed) =>
        mean_over = { p \in Grid :
            /\ TitleAltitude[1] <= altitude[p] /\ altitude[p] <= TitleAltitude[2]
            /\ TitleDistance[1] <= distance[p] /\ distance[p] <= TitleDistance[2] }

\* C10: when the download cell ends with an exception, no file is left at
\* l1b_fileP.
C10_NoFileAfterFailure ==
    (pc = 1 /\ 1 \in ran /\ raised # "none") => l1b_file = Absent

=============================================================================
